---- MODULE Spec2Model ----
(***************************************************************************)
(* Model of the Rick & Morty dialogue engine: src/app.py (FastAPI backend: *)
(* the three-node dialogue pipeline and the sqlite conversation store) and *)
(* src/ui.py (the Streamlit handlers that drive it).                       *)
(*                                                                         *)
(* Text is a sequence of tokens (a tag, a word, a whitespace run).         *)
(* A column value is a pair (kind, text): its storage class and rendering. *)
(* Similarities are integers in units of 1/10000; the rounded score of the *)
(* pipeline is an integer in units of 1/1000.                              *)
(***************************************************************************)
EXTENDS Integers, Sequences, FiniteSets, TLC

VARIABLES store, session, last, saved

vars == <<store, session, last, saved>>

\* Number of rows the database file holds when the backend starts on an
\* existing rm.db, and the number of inserts one run of the model accepts.
NumPreStored == 19
MaxSaves == 2

LIST_LIMIT == 20
SEARCH_LIMIT == 10

----------------------------------------------------------------------------
\* Generic helpers

Min(a, b) == IF a < b THEN a ELSE b

Range(s) == {s[i] : i \in 1..Len(s)}

Take(s, n) == SubSeq(s, 1, Min(n, Len(s)))

Reverse(s) == [i \in 1..Len(s) |-> s[Len(s) + 1 - i]]

----------------------------------------------------------------------------
\* Column values

Text(t) == [kind |-> "text", text |-> t]
Integer(t) == [kind |-> "integer", text |-> t]
Null == [kind |-> "null", text |-> ""]

\* sqlite TEXT column affinity: a numeric value is stored as its text
\* rendering, NULL and text are stored as they are.
TextAffinity(v) == IF v.kind = "integer" THEN Text(v.text) ELSE v

\* json.dumps / json.loads of a JSON-compatible value.
json_dumps(x) == [json |-> x]
json_loads(j) == j.json

\* sqlite BINARY collation of two text values: bytewise, a proper prefix
\* sorts first.  Timestamps are sequences of character codes.
RECURSIVE TextLess(_, _)
TextLess(a, b) ==
    IF b = <<>> THEN FALSE
    ELSE IF a = <<>> THEN TRUE
    ELSE IF Head(a) # Head(b) THEN Head(a) < Head(b)
    ELSE TextLess(Tail(a), Tail(b))

----------------------------------------------------------------------------
\* The remote character API

CharIds == {1, 2, 3}

CharacterDB ==
    (1 :> [id |-> 1, name |-> Text("Rick"), species |-> "Human", status |-> "Alive"])
    @@ (2 :> [id |-> 2, name |-> Text("Morty"), species |-> "Human", status |-> "Alive"])

ValidIds == DOMAIN CharacterDB

\* Variant: no raise_for_status, a failed GET yields a character all the same.
fetch_character_by_id_lenient(cid, net) ==
    [ok |-> TRUE, value |-> CharacterDB[IF cid \in ValidIds THEN cid ELSE 1]]

\* fetch_character_by_id: the GET answers or not (net), raise_for_status
\* raises on an id the API does not know.
fetch_character_by_id(cid, net) ==
    IF net /\ cid \in ValidIds
    THEN [ok |-> TRUE, value |-> CharacterDB[cid]]
    ELSE [ok |-> FALSE]

----------------------------------------------------------------------------
\* strip_reasoning

OpenTags == {"<think>", "<THINK>"}
CloseTags == {"</think>", "</THINK>"}
Whitespace == {" ", "\n"}

\* Index of the first closing tag at or after position i, 0 when none.
RECURSIVE FirstClose(_, _)
FirstClose(text, i) ==
    IF i > Len(text) THEN 0
    ELSE IF text[i] \in CloseTags THEN i
    ELSE FirstClose(text, i + 1)

\* re.sub(r"<think>.*?</think>", "", text, DOTALL | IGNORECASE) scanning
\* from position i: the leftmost opening tag is matched with the nearest
\* closing tag after it; an opening tag with no closing tag matches nothing.
RECURSIVE ReSub(_, _)
ReSub(text, i) ==
    IF i > Len(text) THEN <<>>
    ELSE IF text[i] \in OpenTags /\ FirstClose(text, i + 1) # 0
         THEN ReSub(text, FirstClose(text, i + 1) + 1)
         ELSE <<text[i]>> \o ReSub(text, i + 1)

RECURSIVE LStrip(_)
LStrip(text) ==
    IF text # <<>> /\ Head(text) \in Whitespace THEN LStrip(Tail(text)) ELSE text

StrStrip(text) == Reverse(LStrip(Reverse(LStrip(text))))

strip_reasoning(text) == StrStrip(ReSub(text, 1))

----------------------------------------------------------------------------
\* The embedding model and cosine similarity

\* embedder.encode: a fixed function from a text to a vector.
TokenVec(tok) ==
    CASE tok \in {"Rick", "Rick:"} -> <<1, 1>>
      [] tok \in {"Morty", "Morty:"} -> <<-1, 1>>
      [] tok \in OpenTags -> <<0, 1>>
      [] tok = "hmm" -> <<-1, 0>>
      [] tok = "portal" -> <<2, 0>>
      [] tok = "Jerry:" -> <<0, -1>>
      [] OTHER -> <<1, 0>>

encode(text) == IF text = <<>> THEN <<1, 0>> ELSE TokenVec(text[1])

Dot(a, b) == a[1] * b[1] + a[2] * b[2]

RECURSIVE ISqrtIn(_, _, _)
ISqrtIn(n, lo, hi) ==
    IF lo >= hi THEN lo
    ELSE LET mid == (lo + hi + 1) \div 2
         IN IF mid * mid <= n THEN ISqrtIn(n, mid, hi) ELSE ISqrtIn(n, lo, mid - 1)

ISqrt(n) == ISqrtIn(n, 0, 10000)

\* util.cos_sim in units of 1/10000 (truncated towards zero); a zero vector
\* is normalised with an epsilon and gives 0.
cos_sim(a, b) ==
    LET d == Dot(a, b)
        nn == Dot(a, a) * Dot(b, b)
    IN IF nn = 0 \/ d = 0 THEN 0
       ELSE LET m == ISqrt((d * d * 100000000) \div nn)
            IN IF d < 0 THEN 0 - m ELSE m

\* round(x, 3): from units of 1/10000 to units of 1/1000, half to even.
round3(x) ==
    LET q == x \div 10
        r == x % 10
    IN IF r < 5 THEN q
       ELSE IF r > 5 THEN q + 1
       ELSE IF q % 2 = 0 THEN q ELSE q + 1

----------------------------------------------------------------------------
\* The LLM: what one llm.invoke(prompt) call can produce

RawOutputs ==
    { <<"Rick:", "\n", "Morty:">>,
      <<"<think>", "hmm", "</think>", "\n", "Rick:">>,
      <<"<think>", "hmm">>,
      <<"<think>", "hmm", "</think>", "\n">>,
      <<"<think>", "hmm", "<think>", "hmm", "</think>", "hmm", "</think>", "Morty:">>,
      <<"<THINK>", "hmm", "</think>", "Rick:", "<think>", "hmm", "</THINK>">>,
      <<"\n">> }

LLMOutcomes == [ok : {TRUE}, content : RawOutputs] \cup {[ok |-> FALSE]}

\* The outcomes of the external calls of one request: whether each character
\* GET answers, what the LLM call does, and which encode call (if any) raises.
Envs == [net1 : BOOLEAN, net2 : BOOLEAN, llm : LLMOutcomes,
         enc : {"none", "anchor", "dialogue"}]

----------------------------------------------------------------------------
\* Graph nodes.  A node maps a DialogueState (a function from the keys that
\* are set) to [ok, state, calls]: the state it returns, or ok = FALSE when
\* it raised, and the external calls it made.

retrieve_characters(state, env) ==
    [ok |-> TRUE, state |-> state, calls |-> <<>>]

\* Variant: the LLM is invoked a second time.
generate_dialogue_twice(state, env) ==
    IF env.llm.ok
    THEN [ok |-> TRUE,
          state |-> ("dialogue" :> strip_reasoning(env.llm.content)) @@ state,
          calls |-> <<"llm", "llm">>]
    ELSE [ok |-> FALSE, state |-> state, calls |-> <<"llm", "llm">>]

generate_dialogue(state, env) ==
    IF env.llm.ok
    THEN [ok |-> TRUE,
          state |-> ("dialogue" :> strip_reasoning(env.llm.content)) @@ state,
          calls |-> <<"llm">>]
    ELSE [ok |-> FALSE, state |-> state, calls |-> <<"llm">>]

Anchor(state) == <<state["char1"].name.text, " ", state["char2"].name.text>>

evaluate_dialogue(state, env) ==
    IF "dialogue" \notin DOMAIN state
    THEN [ok |-> FALSE, state |-> state, calls |-> <<"encode_anchor">>]
    ELSE IF env.enc = "anchor"
    THEN [ok |-> FALSE, state |-> state, calls |-> <<"encode_anchor">>]
    ELSE IF env.enc = "dialogue"
    THEN [ok |-> FALSE, state |-> state,
          calls |-> <<"encode_anchor", "encode_dialogue">>]
    ELSE LET e1 == encode(Anchor(state))
             e2 == encode(state["dialogue"])
             score == round3(cos_sim(e1, e2))
         IN [ok |-> TRUE,
             state |-> ("score" :> score) @@ state,
             calls |-> <<"encode_anchor", "encode_dialogue">>]

\* dialogue_graph
EntryPoint == "retrieve"

Edges == [retrieve |-> "generate", generate |-> "evaluate", evaluate |-> "END"]

RunNode(node, state, env) ==
    CASE node = "retrieve" -> retrieve_characters(state, env)
      [] node = "generate" -> generate_dialogue(state, env)
      [] node = "evaluate" -> evaluate_dialogue(state, env)

\* dialogue_graph.invoke from `node` on: run the node, follow its edge.
RECURSIVE GraphInvoke(_, _, _)
GraphInvoke(node, ctx, env) ==
    IF node = "END" \/ ~ctx.ok THEN ctx
    ELSE LET r == RunNode(node, ctx.state, env)
         IN GraphInvoke(Edges[node],
                        [ok |-> r.ok, state |-> r.state,
                         calls |-> ctx.calls \o r.calls,
                         nodes |-> Append(ctx.nodes, node)],
                        env)

\* run_dialogue: the record of one handled request.
run_dialogue(char1_id, char2_id, env) ==
    LET r1 == fetch_character_by_id(char1_id, env.net1)
        r2 == fetch_character_by_id(char2_id, env.net2)
        failed(calls, nodes) ==
            [op |-> "run_dialogue", status |-> "error", ids |-> <<char1_id, char2_id>>,
             env |-> env, calls |-> calls, nodes |-> nodes]
    IN IF ~r1.ok THEN failed(<<"fetch1">>, <<>>)
       ELSE IF ~r2.ok THEN failed(<<"fetch1", "fetch2">>, <<>>)
       ELSE LET init == ("char1" :> r1.value) @@ ("char2" :> r2.value)
                ctx == GraphInvoke(EntryPoint,
                                   [ok |-> TRUE, state |-> init,
                                    calls |-> <<"fetch1", "fetch2">>, nodes |-> <<>>],
                                   env)
            IN IF ~ctx.ok THEN failed(ctx.calls, ctx.nodes)
               ELSE [op |-> "run_dialogue", status |-> "ok",
                     ids |-> <<char1_id, char2_id>>, env |-> env,
                     calls |-> ctx.calls, nodes |-> ctx.nodes,
                     input |-> init, result |-> ctx.state,
                     response |-> [conversation |-> ctx.state["dialogue"],
                                   semantic_score |-> ctx.state["score"]]]

----------------------------------------------------------------------------
\* The conversations table.  store is the table in rowid order; a row is
\* [id, timestamp, char1, char2, dialogue, embedding, scores, note].

PayloadKeys == {"conversation_id", "timestamp", "char1", "char2", "dialogue",
                "scores", "note"}

\* Variant: the id column carries no key constraint.
PrimaryKeyConflict_off(st, id) == FALSE

\* The PRIMARY KEY constraint of a TEXT column of a rowid table: a value
\* conflicts with an equal stored value; NULL conflicts with nothing.
PrimaryKeyConflict(st, id) ==
    id.kind # "null" /\ \E i \in 1..Len(st) : st[i].id = id

\* Variant: the two name columns are bound the other way round.
InsertRow_swapped(payload) ==
    [id |-> TextAffinity(payload["conversation_id"]),
     timestamp |-> payload["timestamp"],
     char1 |-> TextAffinity(payload["char2"].name),
     char2 |-> TextAffinity(payload["char1"].name),
     dialogue |-> payload["dialogue"],
     embedding |-> json_dumps(encode(payload["dialogue"])),
     scores |-> json_dumps(payload["scores"]),
     note |-> TextAffinity(payload["note"])]

InsertRow(payload) ==
    [id |-> TextAffinity(payload["conversation_id"]),
     timestamp |-> payload["timestamp"],
     char1 |-> TextAffinity(payload["char1"].name),
     char2 |-> TextAffinity(payload["char2"].name),
     dialogue |-> payload["dialogue"],
     embedding |-> json_dumps(encode(payload["dialogue"])),
     scores |-> json_dumps(payload["scores"]),
     note |-> TextAffinity(payload["note"])]

RowsWithout(st, id) == SelectSeq(st, LAMBDA r : r.id # id)

\* Variant: INSERT OR REPLACE, a stored row with the same id is replaced.
save_conversation_replace(st, payload) ==
    LET done(status, error, opened, closed, st2) ==
            [op |-> "save_conversation", status |-> status, error |-> error,
             payload |-> payload, opened |-> opened, closed |-> closed,
             store |-> st2]
    IN IF "dialogue" \notin DOMAIN payload
       THEN done("error", "KeyError", 0, 0, st)
       ELSE IF ~(PayloadKeys \subseteq DOMAIN payload)
       THEN done("error", "KeyError", 1, 0, st)
       ELSE done("saved", "", 1, 1,
                 Append(RowsWithout(st, TextAffinity(payload["conversation_id"])),
                        InsertRow(payload)))

\* save_conversation: the record of one handled request and the table after
\* it.  opened / closed count sqlite3.connect and conn.close calls.
save_conversation(st, payload) ==
    LET done(status, error, opened, closed, st2) ==
            [op |-> "save_conversation", status |-> status, error |-> error,
             payload |-> payload, opened |-> opened, closed |-> closed,
             store |-> st2]
    IN IF "dialogue" \notin DOMAIN payload
       THEN done("error", "KeyError", 0, 0, st)
       ELSE IF ~(PayloadKeys \subseteq DOMAIN payload)
       THEN done("error", "KeyError", 1, 0, st)
       ELSE IF PrimaryKeyConflict(st, TextAffinity(payload["conversation_id"]))
       THEN done("error", "IntegrityError", 1, 0, st)
       ELSE done("saved", "", 1, 1, Append(st, InsertRow(payload)))

ListEntry(r) ==
    [timestamp |-> r.timestamp, char1 |-> r.char1, char2 |-> r.char2,
     dialogue |-> r.dialogue, scores |-> json_loads(r.scores), note |-> r.note]

\* Variant: ORDER BY timestamp ASC.
TimestampAsc(a, b) == TextLess(a.timestamp, b.timestamp)

\* ORDER BY timestamp DESC: row a sorts strictly ahead of row b.
TimestampDesc(a, b) == TextLess(b.timestamp, a.timestamp)

\* Index of the first row at or after position i that x sorts strictly ahead
\* of, Len(sorted) + 1 when none.
RECURSIVE TimestampSlot(_, _, _)
TimestampSlot(sorted, x, i) ==
    IF i > Len(sorted) \/ TimestampDesc(x, sorted[i]) THEN i
    ELSE TimestampSlot(sorted, x, i + 1)

InsertAt(sorted, x, i) ==
    SubSeq(sorted, 1, i - 1) \o <<x>> \o SubSeq(sorted, i, Len(sorted))

\* Stable insertion of row x.
InsertByTimestamp(sorted, x) == InsertAt(sorted, x, TimestampSlot(sorted, x, 1))

RECURSIVE OrderByTimestamp(_, _)
OrderByTimestamp(rows, n) ==
    IF n = 0 THEN <<>>
    ELSE InsertByTimestamp(OrderByTimestamp(rows, n - 1), rows[n])

\* The list comprehension over the fetched rows.
RECURSIVE ListEntries(_, _)
ListEntries(rows, n) ==
    IF n = 0 THEN <<>> ELSE Append(ListEntries(rows, n - 1), ListEntry(rows[n]))

\* list_conversations.  SQL leaves the order of rows with equal timestamps
\* open; tie is the order the engine happens to produce them in.
list_conversations(st, tie) ==
    LET scan == IF tie = "rowid_asc" THEN st ELSE Reverse(st)
        rows == Take(OrderByTimestamp(scan, Len(scan)), LIST_LIMIT)
    IN [op |-> "list_conversations", status |-> "ok", opened |-> 1, closed |-> 1,
        result |-> ListEntries(rows, Len(rows))]

Similarity(q_emb, row) == cos_sim(q_emb, json_loads(row.embedding))

\* The loop over the fetched rows: results.append((sim, {...})).
RECURSIVE ScoreRows(_, _, _)
ScoreRows(q_emb, rows, n) ==
    IF n = 0 THEN <<>>
    ELSE Append(ScoreRows(q_emb, rows, n - 1),
                <<Similarity(q_emb, rows[n]), ListEntry(rows[n])>>)

\* Variant: the sort without reverse=True.
SimAsc(a, b) == a[1] < b[1]

\* key=lambda x: x[0], reverse=True: pair a sorts strictly ahead of pair b.
SimDesc(a, b) == a[1] > b[1]

RECURSIVE SimSlot(_, _, _)
SimSlot(sorted, x, i) ==
    IF i > Len(sorted) \/ SimDesc(x, sorted[i]) THEN i
    ELSE SimSlot(sorted, x, i + 1)

InsertBySim(sorted, x) == InsertAt(sorted, x, SimSlot(sorted, x, 1))

\* results.sort(...): stable.
RECURSIVE SortBySim(_, _)
SortBySim(results, n) ==
    IF n = 0 THEN <<>>
    ELSE InsertBySim(SortBySim(results, n - 1), results[n])

\* [r[1] for r in ...]
RECURSIVE Seconds(_, _)
Seconds(pairs, n) ==
    IF n = 0 THEN <<>> ELSE Append(Seconds(pairs, n - 1), pairs[n][2])

\* search_conversations
search_conversations(st, q) ==
    LET results == ScoreRows(encode(q), st, Len(st))
        top == Take(SortBySim(results, Len(results)), SEARCH_LIMIT)
    IN [op |-> "search_conversations", status |-> "ok", q |-> q,
        opened |-> 1, closed |-> 1,
        result |-> Seconds(top, Len(top))]

----------------------------------------------------------------------------
\* Inputs

T1 == <<1, 0>>
T2 == <<2>>
T3 == <<2, 0>>

\* datetime.utcnow().strftime(...): the clock reading of the run.
UITimestamps == {T3}

NoSession == [conversation_id |-> Null]

\* The feedback widgets of the Save form.
UIFeedback ==
    { [scores |-> [char1 |-> 5, char2 |-> 3, creativity |-> 4], note |-> Text("fun")] }

UIEnvs ==
    { [net1 |-> TRUE, net2 |-> TRUE, enc |-> "none",
       llm |-> [ok |-> TRUE, content |-> <<"Rick:", "\n", "Morty:">>]],
      [net1 |-> TRUE, net2 |-> FALSE, enc |-> "none", llm |-> [ok |-> FALSE]] }

ApiPayload(id, ts, n1, n2, dlg, note) ==
    [conversation_id |-> id, timestamp |-> ts, char1 |-> [name |-> n1],
     char2 |-> [name |-> n2], dialogue |-> dlg,
     scores |-> [char1 |-> 3, char2 |-> 3, creativity |-> 3], note |-> note]

Without(f, k) == [x \in DOMAIN f \ {k} |-> f[x]]

\* Payloads a client other than the UI posts: numbers where text is
\* expected, nulls, missing fields.
ApiPayloads ==
    LET full == ApiPayload(Text("api"), T2, Text("Rick"), Text("Morty"),
                           <<"portal">>, Null)
    IN { ApiPayload(Integer("101"), T2, Integer("137"), Text("Morty"),
                    <<"Jerry:">>, Integer("5")),
         ApiPayload(Null, T1, Text("Morty"), Text("Rick"), <<"portal">>, Null),
         Without(full, "note"),
         Without(full, "dialogue") }

Queries == {<<"Rick">>, <<"portal">>, <<"hmm", "Morty">>}

\* A row saved by an earlier run of the backend.
PreStoredPayload(i) ==
    ApiPayload(Text(ToString(100 + i)),
               CASE i % 3 = 0 -> T1 [] i % 3 = 1 -> T3 [] OTHER -> T2,
               Text("Rick"), Text("Morty"),
               CASE i % 4 = 0 -> <<"Rick:", "portal">>
                 [] i % 4 = 1 -> <<"Morty:", "portal">>
                 [] i % 4 = 2 -> <<"portal">>
                 [] OTHER -> <<"Jerry:">>,
               Text(""))

PreStored(n) == [i \in 1..n |-> InsertRow(PreStoredPayload(i))]

\* uuid.uuid4(): an id no stored row and no earlier conversation has.
Uuid4(st) == Text(ToString(Len(st) + 1))

----------------------------------------------------------------------------
\* State machine

Init ==
    /\ store \in {PreStored(0), PreStored(NumPreStored)}
    /\ session = NoSession
    /\ last = [op |-> "none", status |-> "ok"]
    /\ saved = <<>>

\* GET /run-dialogue
RunDialogue(c1, c2, env) ==
    /\ last' = run_dialogue(c1, c2, env)
    /\ UNCHANGED <<store, session, saved>>

\* The "Generate AI Conversation" button: a failed request has no JSON body
\* and the script run ends before the session is assigned.
UIGenerate(c1, c2, env, now) ==
    /\ c1 # c2
    /\ LET r == run_dialogue(c1, c2, env)
       IN /\ last' = r
          /\ session' =
               IF r.status = "ok"
               THEN [conversation_id |-> Uuid4(store), timestamp |-> now,
                     char1 |-> CharacterDB[c1], char2 |-> CharacterDB[c2],
                     dialogue |-> r.response.conversation,
                     semantic_score |-> r.response.semantic_score]
               ELSE session
    /\ UNCHANGED <<store, saved>>

\* POST /save-conversation
SaveConversation(payload) ==
    LET r == save_conversation(store, payload)
    IN /\ r.status = "saved" => Len(saved) < MaxSaves
       /\ last' = [x \in DOMAIN r \ {"store"} |-> r[x]]
       /\ store' = r.store
       /\ saved' = IF r.status = "saved" THEN Append(saved, payload) ELSE saved
       /\ UNCHANGED session

\* The "Save Conversation" button: posts the current conversation with the
\* feedback and does not look at the response.
UISave(fb) ==
    /\ session # NoSession
    /\ SaveConversation(("scores" :> fb.scores) @@ ("note" :> fb.note) @@ session)

\* GET /list-conversations
ListConversations(tie) ==
    /\ last' = list_conversations(store, tie)
    /\ UNCHANGED <<store, session, saved>>

\* GET /search-conversations
SearchConversations(q) ==
    /\ last' = search_conversations(store, q)
    /\ UNCHANGED <<store, session, saved>>

Next ==
    \/ \E c1 \in ValidIds, c2 \in ValidIds, env \in UIEnvs, now \in UITimestamps :
          UIGenerate(c1, c2, env, now)
    \/ \E fb \in UIFeedback : UISave(fb)
    \/ \E payload \in ApiPayloads : SaveConversation(payload)
    \/ \E tie \in {"rowid_asc", "rowid_desc"} : ListConversations(tie)
    \/ \E q \in Queries : SearchConversations(q)

Spec == Init /\ [][Next]_vars

NextPipeline ==
    \E c1 \in CharIds, c2 \in CharIds, env \in Envs : RunDialogue(c1, c2, env)

SpecPipeline == Init /\ [][NextPipeline]_vars

----------------------------------------------------------------------------
\* Properties of the dialogue pipeline (checked under SpecPipeline)

RanOk == last.op = "run_dialogue" /\ last.status = "ok"

\* Nesting depth of reasoning blocks after the first i tokens of raw.
RECURSIVE BlockDepth(_, _)
BlockDepth(raw, i) ==
    IF i = 0 THEN 0
    ELSE LET d == BlockDepth(raw, i - 1)
         IN IF raw[i] \in OpenTags THEN d + 1
            ELSE IF raw[i] \in CloseTags /\ d > 0 THEN d - 1
            ELSE d

\* The tokens of raw that follow an opening tag inside its block (to the end
\* of raw when the block is never closed).
ReasoningTokens(raw) ==
    {raw[i] : i \in {j \in 1..Len(raw) : BlockDepth(raw, j - 1) > 0}} \ CloseTags

\* C1: the dialogue returned for a raw LLM output holds no opening reasoning
\* tag and none of the text of a reasoning block of the raw output, closed
\* or not, nested or repeated.
C1_NoReasoningInDialogue ==
    RanOk =>
        \A k \in 1..Len(last.response.conversation) :
            /\ last.response.conversation[k] \notin OpenTags
            /\ last.response.conversation[k] \notin ReasoningTokens(last.env.llm.content)

\* C5: a response of run_dialogue for two valid character ids carries a
\* non-empty conversation and a semantic_score in [-1, 1].
C5_NonEmptyAndScoreInRange ==
    (RanOk /\ last.ids[1] \in ValidIds /\ last.ids[2] \in ValidIds) =>
        /\ last.response.conversation # <<>>
        /\ last.response.semantic_score \in -1000..1000

FetchFailed(k) ==
    \/ last.ids[k] \notin ValidIds
    \/ ~(IF k = 1 THEN last.env.net1 ELSE last.env.net2)

Occurrences(calls, c) == Cardinality({i \in 1..Len(calls) : calls[i] = c})

\* C7: when a character fetch, the LLM call or an embedding call of a
\* run_dialogue request fails, the request ends with an error and no
\* response; no external call is made twice; after a failed fetch the LLM is
\* not invoked.
C7_FailureIsTotal ==
    last.op = "run_dialogue" =>
        /\ (FetchFailed(1) \/ FetchFailed(2) \/ ~last.env.llm.ok \/ last.env.enc # "none")
             => /\ last.status = "error"
                /\ "response" \notin DOMAIN last
                /\ \A c \in Range(last.calls) : Occurrences(last.calls, c) = 1
        /\ (FetchFailed(1) \/ FetchFailed(2)) => Occurrences(last.calls, "llm") = 0

C7_Witness ==
    /\ last.op = "run_dialogue"
    /\ last.status = "error"
    /\ ~last.env.llm.ok
    /\ last.calls = <<"fetch1", "fetch2", "llm">>

IndexOf(calls, c) == CHOOSE i \in 1..Len(calls) : calls[i] = c

\* C8: a successful pipeline run executes retrieve, generate, evaluate once
\* each in that order, makes exactly one LLM call and makes it before the
\* similarity computation, scores the dialogue that call produced, and leaves
\* char1 and char2 as they were.
C8_FixedPipeline ==
    RanOk =>
        /\ last.nodes = <<"retrieve", "generate", "evaluate">>
        /\ Occurrences(last.calls, "llm") = 1
        /\ Occurrences(last.calls, "encode_dialogue") = 1
        /\ IndexOf(last.calls, "llm") < IndexOf(last.calls, "encode_anchor")
        /\ IndexOf(last.calls, "llm") < IndexOf(last.calls, "encode_dialogue")
        /\ last.result["dialogue"] = strip_reasoning(last.env.llm.content)
        /\ last.response.conversation = last.result["dialogue"]
        /\ last.response.semantic_score =
             round3(cos_sim(encode(Anchor(last.input)), encode(last.result["dialogue"])))
        /\ last.result["char1"] = last.input["char1"]
        /\ last.result["char2"] = last.input["char2"]

C8_Witness ==
    /\ RanOk
    /\ last.result["dialogue"] # last.env.llm.content
    /\ last.response.semantic_score \notin {0, 1000, -1000}

----------------------------------------------------------------------------
\* Properties of the conversation store (checked under Spec)

Listed == last.op = "list_conversations"
Searched == last.op = "search_conversations"

\* The payload's conversation is among the entries of a listing.
ListedAs(p, result) ==
    \E k \in 1..Len(result) :
        /\ result[k].char1 = p["char1"].name
        /\ result[k].char2 = p["char2"].name
        /\ result[k].dialogue = p["dialogue"]
        /\ result[k].note = p["note"]

\* C2 as stated: every payload whose save succeeded is in every later
\* listing, with the names, dialogue and note of the payload.
C2_SavedIsListed ==
    Listed => \A k \in 1..Len(saved) : ListedAs(saved[k], last.result)

TextValued(p) ==
    /\ p["char1"].name.kind = "text"
    /\ p["char2"].name.kind = "text"
    /\ p["note"].kind \in {"text", "null"}

\* The row the k-th accepted save of the run added.
SavedRowIndex(k) == Len(store) - Len(saved) + k

\* Stored rows other than the k-th saved one whose timestamp is not earlier
\* than its timestamp.
NotEarlier(k) ==
    {i \in 1..Len(store) :
        /\ i # SavedRowIndex(k)
        /\ ~TextLess(store[i].timestamp, saved[k]["timestamp"])}

\* C2 amended: a payload whose save succeeded, whose names are text and whose
\* note is text or null, is in a later listing with identical names,
\* dialogue and note whenever fewer than 20 other stored conversations have
\* a timestamp that is not earlier than its own.
C2_SavedIsListedWithinLimit ==
    Listed =>
        \A k \in 1..Len(saved) :
            (TextValued(saved[k]) /\ Cardinality(NotEarlier(k)) < LIST_LIMIT)
                => ListedAs(saved[k], last.result)

C2_Witness ==
    /\ Listed
    /\ Len(saved) = 2
    /\ Len(store) > LIST_LIMIT
    /\ TextValued(saved[1])
    /\ Cardinality(NotEarlier(1)) < LIST_LIMIT
    /\ ListedAs(saved[1], last.result)

TimestampCount(s, t) == Cardinality({i \in 1..Len(s) : s[i].timestamp = t})

\* C3: a listing has min(20, rows stored) entries in non-increasing
\* timestamp order, all of them stored, and no stored conversation that is
\* left out has a later timestamp than one that is listed.
C3_ListIsLatestTwenty ==
    Listed =>
        /\ Len(last.result) = Min(LIST_LIMIT, Len(store))
        /\ \A k \in 1..(Len(last.result) - 1) :
              ~TextLess(last.result[k].timestamp, last.result[k + 1].timestamp)
        /\ \A i \in 1..Len(store) :
              LET t == store[i].timestamp
              IN /\ TimestampCount(last.result, t) <= TimestampCount(store, t)
                 /\ TimestampCount(last.result, t) < TimestampCount(store, t)
                      => \A k \in 1..Len(last.result) :
                            ~TextLess(last.result[k].timestamp, t)
        /\ \A k \in 1..Len(last.result) :
              \E i \in 1..Len(store) : ListEntry(store[i]) = last.result[k]

C3_Witness ==
    /\ Listed
    /\ Len(store) > LIST_LIMIT
    /\ Len(last.result) = LIST_LIMIT
    /\ last.result[1].timestamp # last.result[LIST_LIMIT].timestamp
    /\ saved # <<>>

\* Similarity of a listed entry / a stored row to the query of the search.
EntrySim(e) == cos_sim(encode(last.q), encode(e.dialogue))
RowSim(r) == cos_sim(encode(last.q), json_loads(r.embedding))

SimCount(s, v) == Cardinality({i \in 1..Len(s) : EntrySim(s[i]) = v})
RowSimCount(s, v) == Cardinality({i \in 1..Len(s) : RowSim(s[i]) = v})

\* C4: a search returns min(10, rows stored) stored conversations in
\* non-increasing order of similarity to the query, and no stored
\* conversation that is left out is strictly more similar than one returned.
C4_SearchIsTopTen ==
    Searched =>
        /\ Len(last.result) = Min(SEARCH_LIMIT, Len(store))
        /\ \A k \in 1..(Len(last.result) - 1) :
              EntrySim(last.result[k]) >= EntrySim(last.result[k + 1])
        /\ \A i \in 1..Len(store) :
              LET v == RowSim(store[i])
              IN /\ SimCount(last.result, v) <= RowSimCount(store, v)
                 /\ SimCount(last.result, v) < RowSimCount(store, v)
                      => \A k \in 1..Len(last.result) : EntrySim(last.result[k]) >= v
        /\ \A k \in 1..Len(last.result) :
              \E i \in 1..Len(store) : ListEntry(store[i]) = last.result[k]

C4_Witness ==
    /\ Searched
    /\ Len(store) > SEARCH_LIMIT
    /\ Len(last.result) = SEARCH_LIMIT
    /\ EntrySim(last.result[1]) > EntrySim(last.result[SEARCH_LIMIT])
    /\ saved # <<>>

\* C6: every step leaves the stored rows as they are; the only change to
\* the table is one row appended by a successful save_conversation.
C6_AppendOnly ==
    [][ /\ Len(store') \in {Len(store), Len(store) + 1}
        /\ SubSeq(store', 1, Len(store)) = store
        /\ store' # store
             => last'.op = "save_conversation" /\ last'.status = "saved" ]_vars

C6_Witness ==
    /\ Searched
    /\ Len(saved) = 2
    /\ Len(store) > Len(saved)
    /\ session # NoSession

\* C9: every store operation closes the connection it opened.
C9_ConnectionsClosed ==
    last.op \in {"save_conversation", "list_conversations", "search_conversations"}
        => last.closed = last.opened

\* C10 as stated: no two stored conversations have the same id.
C10_IdsUnique ==
    \A i, j \in 1..Len(store) : i # j => store[i].id # store[j].id

StoredId(st, id) == \E i \in 1..Len(st) : st[i].id = id

\* C10 amended: no two stored conversations have the same non-null id, and
\* a save_conversation call whose conversation_id is not null and already
\* stored ends with an error and leaves the table as it was.
C10_NonNullIdsUnique ==
    /\ [](\A i, j \in 1..Len(store) :
            (i # j /\ store[i].id.kind # "null") => store[i].id # store[j].id)
    /\ [][ ( /\ last'.op = "save_conversation"
             /\ "conversation_id" \in DOMAIN last'.payload
             /\ last'.payload["conversation_id"].kind # "null"
             /\ StoredId(store, TextAffinity(last'.payload["conversation_id"])) )
           => (last'.status = "error" /\ store' = store) ]_vars

\* The Save button pressed again for the conversation that is already stored.
C10_Witness ==
    /\ last.op = "save_conversation"
    /\ last.error = "IntegrityError"
    /\ session # NoSession
    /\ last.payload["conversation_id"] = session.conversation_id
    /\ StoredId(store, session.conversation_id)

====
